---- MODULE Spec2Model ----
(***************************************************************************)
(* IMAGINE API (src/main.py, src/schemas.py): HTTP handlers over a         *)
(* document store.  The store adapter (module `database`: db,              *)
(* create_document, get_documents) is not part of the sources; it is       *)
(* modelled from its contract in spec.md section 4.1.                      *)
(*                                                                         *)
(* The service keeps no state of its own: the state is the store and the   *)
(* position of each /seed request in flight.  A handler is an operator     *)
(* from the store (and its inputs) to the store it leaves and its          *)
(* response.  Handlers that make one store call are one step; seed_content *)
(* makes up to nine and is one step per store call, so that other requests *)
(* run between them.                                                       *)
(*                                                                         *)
(* Encodings.  Optional[T]: None is <<>> and a present value x is <<x>>.   *)
(* A Python dict / pydantic model is a TLA+ record (a function from field  *)
(* names).  Prices are kept in hundredths (4.99 is 499).  A collection is  *)
(* the sequence of its documents in insertion order.                       *)
(***************************************************************************)
EXTENDS Integers, Sequences, FiniteSets, TLC

VARIABLES
    db_present,        \* database.db is not None
    env,               \* environment variables that are set
    store,             \* collection name -> sequence of stored documents
    start_empty,       \* history: mode and pricingplan were both empty at start
    posted,            \* history: documents the clients have added
    overlap,           \* history: two /seed requests were in flight at once
    began_full,        \* history, per /seed request: it was issued when mode
                       \* and pricingplan both held documents
    added,             \* history, per /seed request: the modes and the plans
                       \* it has inserted
    pc,                \* per in-flight /seed request: position in seed_content
    existing,          \* per in-flight /seed request: local `existing`
    existing_pricing,  \* per in-flight /seed request: local `existing_pricing`
    idx                \* per in-flight /seed request: loop position

vars == <<db_present, env, store, start_empty, posted, overlap, began_full, added,
          pc, existing, existing_pricing, idx>>

----------------------------------------------------------------------------
\* Bounds of the model

\* Documents the clients may add, over all five client collections, to
\* what the database held at the start.
MaxDocs == 1

----------------------------------------------------------------------------
\* Values

None == <<>>

Some(x) == <<x>>

Truthy(opt) == opt # None /\ opt[1] # ""

Workers == {1, 2}

Collections == {"mode", "pricingplan", "question", "answer", "blogpost",
                "contactmessage", "chatmessage"}

Min(a, b) == IF a < b THEN a ELSE b

Take(s, n) == SubSeq(s, 1, Min(n, Len(s)))

RECURSIVE SelectMatching(_, _)
SelectMatching(s, filt) ==
    IF s = <<>> THEN <<>>
    ELSE LET d == Head(s)
             hit == \A k \in DOMAIN filt : k \in DOMAIN d /\ d[k] = filt[k]
         IN  (IF hit THEN <<d>> ELSE <<>>) \o SelectMatching(Tail(s), filt)

Restrict(d, fields) == [k \in (DOMAIN d) \cap fields |-> d[k]]

----------------------------------------------------------------------------
\* Schemas (src/schemas.py): the declared fields of each model

ModeFields == {"key", "title", "description", "color"}

QuestionFields == {"mode", "text", "tags", "locale"}

AnswerFields == {"mode", "question_text", "answer_text", "username",
                 "points_awarded"}

BlogPostFields == {"title", "slug", "excerpt", "content", "image", "author",
                   "published_at"}

ContactMessageFields == {"name", "email", "subject", "message"}

ChatMessageFields == {"username", "text", "mode"}

PricingPlanFields == {"name", "price_month", "price_year", "features"}

\* Whether Model(**kw) constructs: every required field is given (the
\* values the handlers pass are of the declared types).  When it does not,
\* pydantic raises ValidationError.
Constructs(kw, required) == required \subseteq DOMAIN kw

ModeRequired == ModeFields

QuestionRequired == {"mode", "text"}

PricingPlanRequired == PricingPlanFields

BlogPostRequired == {"title", "slug", "excerpt", "content"}

\* Mode(**kw), for kw that constructs.  Undeclared keys never reach the
\* constructor: the handlers filter first.
Mode(kw) == Restrict(kw, ModeFields)

\* Question(**kw): tags defaults to None and locale to "en-KE".
Question(kw) ==
    [mode   |-> kw.mode,
     text   |-> kw.text,
     tags   |-> IF "tags" \in DOMAIN kw THEN kw.tags ELSE None,
     locale |-> IF "locale" \in DOMAIN kw THEN kw.locale ELSE "en-KE"]

\* PricingPlan(**kw)
PricingPlan(kw) == Restrict(kw, PricingPlanFields)

\* BlogPost(**kw): image defaults to None, author to "IMAGINE Team" and
\* published_at to the time of construction (datetime.utcnow).
BlogPost(kw) ==
    [title        |-> kw.title,
     slug         |-> kw.slug,
     excerpt      |-> kw.excerpt,
     content      |-> kw.content,
     image        |-> IF "image" \in DOMAIN kw THEN kw.image ELSE None,
     author       |-> IF "author" \in DOMAIN kw THEN kw.author
                      ELSE "IMAGINE Team",
     published_at |-> IF "published_at" \in DOMAIN kw THEN kw.published_at
                      ELSE "utcnow"]

\* The four modes POST /questions accepts.
question_modes == {"child", "arts", "creative", "technology"}

\* The default modes of seed_content and get_modes (the same literal list
\* appears in both).
default_modes ==
    << [key |-> "child", title |-> "Child",
        description |-> "Playful prompts for kids to imagine better worlds.",
        color |-> "#FDBA74"],
       [key |-> "arts", title |-> "Arts & Culture",
        description |-> "Explore culture, identity and expression.",
        color |-> "#FDE68A"],
       [key |-> "creative", title |-> "Creative",
        description |-> "Open-ended ideation and storytelling.",
        color |-> "#86EFAC"],
       [key |-> "technology", title |-> "Technology",
        description |-> "Invent systems and tools for the future.",
        color |-> "#93C5FD"] >>

\* The default plans of seed_content and get_pricing.
plans ==
    << [name |-> "Starter", price_month |-> 0, price_year |-> 0,
        features |-> <<"Community play", "Basic prompts", "Public chat">>],
       [name |-> "Creator", price_month |-> 499, price_year |-> 4900,
        features |-> <<"All modes", "Saved worlds", "Custom decks">>],
       [name |-> "Team", price_month |-> 1499, price_year |-> 14900,
        features |-> <<"Facilitator tools", "Scoreboards", "Workshop mode">>] >>

----------------------------------------------------------------------------
\* Document store adapter (module database; from spec.md section 4.1)

\* create_document on a configured store: the document gets a generated
\* identifier and is appended to its collection.
create_document(s, c, doc) ==
    LET id     == Len(s[c]) + 1
        stored == [k \in (DOMAIN doc) \cup {"_id"} |->
                      IF k = "_id" THEN id ELSE doc[k]]
    IN  [s EXCEPT ![c] = Append(@, stored)]

\* The identifier create_document returns for its next insert into c.
created_id(s, c) == Len(s[c]) + 1

\* get_documents: up to `limit` documents matching the exact-match filter
\* (none when limit is below 1); the empty sequence when no store is
\* configured.
get_documents(s, c, filt, limit) ==
    IF ~db_present THEN <<>>
    ELSE Take(SelectMatching(s[c], filt), limit)

\* db[c].count_documents({})
count_documents(s, c) == Len(s[c])

RECURSIVE InsertAll(_, _, _)
InsertAll(s, c, docs) ==
    IF docs = <<>> THEN s
    ELSE InsertAll(create_document(s, c, Head(docs)), c, Tail(docs))

----------------------------------------------------------------------------
\* Handlers (src/main.py) as functions of the store.  A handler yields the
\* store it leaves and its response; status 500 stands for an exception
\* that escapes the handler.

Response(op, status, body) == [op |-> op, status |-> status, body |-> body]

Outcome(s, r) == [store |-> s, resp |-> r]

\* Whether every Model(**{k: v for k, v in d.items() if k in fields})
\* of a comprehension constructs.
AllConstruct(docs, fields, required) ==
    \A i \in 1..Len(docs) : Constructs(Restrict(docs[i], fields), required)

read_root(s) == Outcome(s, Response("read_root", 200, "IMAGINE API running"))

\* filt = {"mode": mode} if mode else {}
mode_filter(mode) == IF Truthy(mode) THEN [mode |-> mode[1]] ELSE <<>>

\* Mutant of list_questions: the mode filter is dropped.
list_questions_unfiltered(s, mode, limit) ==
    LET docs == get_documents(s, "question", <<>>, limit)
    IN  Outcome(s, Response("list_questions", 200,
            [i \in 1..Len(docs) |-> Question(Restrict(docs[i], QuestionFields))]))

list_questions(s, mode, limit) ==
    LET docs == get_documents(s, "question", mode_filter(mode), limit)
    IN  IF AllConstruct(docs, QuestionFields, QuestionRequired)
        THEN Outcome(s, Response("list_questions", 200,
                 [i \in 1..Len(docs) |-> Question(Restrict(docs[i], QuestionFields))]))
        ELSE Outcome(s, Response("list_questions", 500, "ValidationError"))

\* created_id = create_document(c, doc); return {"id": created_id}.  `ok`
\* is whether the store accepts the insert (with no store configured, or
\* on a store error, create_document raises).
created(op, s, c, doc, ok) ==
    IF db_present /\ ok
    THEN Outcome(create_document(s, c, doc),
                 Response(op, 200, [id |-> created_id(s, c)]))
    ELSE Outcome(s, Response(op, 500, "store error"))

\* Mutant of create_question: no mode check.
create_question_unchecked(s, payload, ok) ==
    created("create_question", s, "question", payload, ok)

create_question(s, payload, ok) ==
    IF payload.mode \notin question_modes
    THEN Outcome(s, Response("create_question", 400, "Invalid mode"))
    ELSE created("create_question", s, "question", payload, ok)

submit_answer(s, ans, ok) == created("submit_answer", s, "answer", ans, ok)

list_answers(s, mode, limit) ==
    Outcome(s, Response("list_answers", 200,
                        get_documents(s, "answer", mode_filter(mode), limit)))

\* The limits the handlers pass to get_documents.
ModesLimit == 10

PricingLimit == 10

BlogLimit == 20

\* Mutant of get_modes: an empty collection is seeded on read.
get_modes_seeding(s) ==
    LET docs == get_documents(s, "mode", <<>>, ModesLimit)
    IN  IF docs = <<>> /\ db_present
        THEN Outcome(InsertAll(s, "mode", default_modes),
                     Response("get_modes", 200, default_modes))
        ELSE Outcome(s, Response("get_modes", 200,
                 [i \in 1..Len(docs) |-> Mode(Restrict(docs[i], ModeFields))]))

\* Mutant of get_modes: the documents are returned as stored.
get_modes_raw(s) ==
    LET docs == get_documents(s, "mode", <<>>, ModesLimit)
    IN  Outcome(s, Response("get_modes", 200,
                            IF docs = <<>> THEN default_modes ELSE docs))

get_modes(s) ==
    LET docs == get_documents(s, "mode", <<>>, ModesLimit)
    IN  IF docs = <<>> THEN Outcome(s, Response("get_modes", 200, default_modes))
        ELSE IF AllConstruct(docs, ModeFields, ModeRequired)
        THEN Outcome(s, Response("get_modes", 200,
                 [i \in 1..Len(docs) |-> Mode(Restrict(docs[i], ModeFields))]))
        ELSE Outcome(s, Response("get_modes", 500, "ValidationError"))

get_pricing(s) ==
    LET docs == get_documents(s, "pricingplan", <<>>, PricingLimit)
    IN  IF docs = <<>> THEN Outcome(s, Response("get_pricing", 200, plans))
        ELSE IF AllConstruct(docs, PricingPlanFields, PricingPlanRequired)
        THEN Outcome(s, Response("get_pricing", 200,
                 [i \in 1..Len(docs) |-> PricingPlan(Restrict(docs[i], PricingPlanFields))]))
        ELSE Outcome(s, Response("get_pricing", 500, "ValidationError"))

list_blog(s) ==
    LET docs == get_documents(s, "blogpost", <<>>, BlogLimit)
    IN  IF AllConstruct(docs, BlogPostFields, BlogPostRequired)
        THEN Outcome(s, Response("list_blog", 200,
                 [i \in 1..Len(docs) |-> BlogPost(Restrict(docs[i], BlogPostFields))]))
        ELSE Outcome(s, Response("list_blog", 500, "ValidationError"))

create_blog(s, post, ok) == created("create_blog", s, "blogpost", post, ok)

\* Mutant of contact: the message is written to the chat collection.
contact_as_chat(s, message, ok) ==
    IF db_present /\ ok
    THEN Outcome(create_document(s, "chatmessage", message),
                 Response("contact", 200,
                          [id |-> created_id(s, "chatmessage"), status |-> "received"]))
    ELSE Outcome(s, Response("contact", 500, "store error"))

\* return {"id": created_id, "status": "received"}
contact(s, message, ok) ==
    IF db_present /\ ok
    THEN Outcome(create_document(s, "contactmessage", message),
                 Response("contact", 200,
                          [id |-> created_id(s, "contactmessage"),
                           status |-> "received"]))
    ELSE Outcome(s, Response("contact", 500, "store error"))

send_chat(s, msg, ok) == created("send_chat", s, "chatmessage", msg, ok)

get_chat(s, limit) ==
    Outcome(s, Response("get_chat", 200, get_documents(s, "chatmessage", <<>>, limit)))

\* Collections other clients of the same database may hold.
ForeignNames == <<"f01", "f02", "f03", "f04", "f05", "f06", "f07", "f08",
                  "f09", "f10", "f11">>

CollectionOrder == <<"mode", "pricingplan", "question", "answer", "blogpost",
                     "contactmessage", "chatmessage">>

\* db.list_collection_names(): the collections that hold documents.
list_collection_names(s, foreign) ==
    LET Holds(c) == s[c] # <<>>
    IN  SelectSeq(CollectionOrder, Holds) \o foreign

\* Messages of the exceptions list_collection_names may raise.
StoreErrors == {"timed out",
                "ServerSelectionTimeoutError: localhost:27017: [Errno 111] Connection refused"}

\* collections[:10] and str(e)[:50]
TestCollections == 10

TestErrorChars == 50

\* Mutant of test_database: the collection names are not cut to ten.
test_database_uncut(s, listing) ==
    Outcome(s, Response("test_database", 200,
        [backend           |-> "Running",
         database          |-> IF ~db_present THEN "Available but not initialized"
                               ELSE IF listing.ok THEN "Connected & Working"
                               ELSE "Connected but Error: "
                                        \o Take(listing.error, TestErrorChars),
         database_url      |-> IF "DATABASE_URL" \in env THEN "Set" ELSE "Not Set",
         database_name     |-> IF "DATABASE_NAME" \in env THEN "Set" ELSE "Not Set",
         connection_status |-> IF db_present THEN "Connected" ELSE "Not Connected",
         collections       |-> IF db_present /\ listing.ok THEN listing.names
                               ELSE <<>>]))

\* test_database; `listing` is what db.list_collection_names() does:
\* [ok |-> TRUE, names |-> ...] or [ok |-> FALSE, error |-> message].
\* The leading emoji of the status strings are left out.
test_database(s, listing) ==
    LET r0 == [backend           |-> "Running",
               database          |-> "Not Available",
               database_url      |-> "None",
               database_name     |-> "None",
               connection_status |-> "Not Connected",
               collections       |-> <<>>]
        r1 == IF db_present
              THEN LET c == [r0 EXCEPT !.database = "Available",
                                       !.database_url = "Configured",
                                       !.database_name = "Connected",
                                       !.connection_status = "Connected"]
                   IN  IF listing.ok
                       THEN [c EXCEPT !.collections = Take(listing.names, TestCollections),
                                      !.database = "Connected & Working"]
                       ELSE [c EXCEPT !.database = "Connected but Error: "
                                          \o Take(listing.error, TestErrorChars)]
              ELSE [r0 EXCEPT !.database = "Available but not initialized"]
        r2 == [r1 EXCEPT !.database_url =
                             IF "DATABASE_URL" \in env THEN "Set" ELSE "Not Set",
                         !.database_name =
                             IF "DATABASE_NAME" \in env THEN "Set" ELSE "Not Set"]
    IN  Outcome(s, Response("test_database", 200, r2))

----------------------------------------------------------------------------
\* Requests tried

QueryModes == {None, Some(""), Some("arts"), Some("child")}

DefaultQuestionLimit == 50

DefaultChatLimit == 30

\* limit query parameters (limit: int is not validated): negative, zero,
\* fewer than the documents a collection can hold here, and the handler's
\* default.  The properties range over all of them and over QueryModes;
\* the read requests issued as steps, which leave the state as it is, take
\* a few.
Limits(default) == {-1, 0, 1, default}

\* NewQuestion bodies: valid and invalid modes, tags given or not; locale
\* takes its default.
QuestionPayloads ==
    {[mode |-> "arts", text |-> "q", tags |-> None, locale |-> "en-KE"],
     [mode |-> "child", text |-> "q", tags |-> Some(<<"t">>), locale |-> "en-KE"],
     [mode |-> "bogus", text |-> "q", tags |-> None, locale |-> "en-KE"],
     [mode |-> "", text |-> "q", tags |-> Some(<<"t">>), locale |-> "en-KE"]}

AnswerPayloads ==
    [mode : {"arts"}, question_text : {"q"}, answer_text : {"a"},
     username : {None}, points_awarded : {0}]

BlogBodies == [title : {"t"}, slug : {"s"}, excerpt : {"e"}, content : {"c"}]

ContactPayloads == [name : {"n"}, email : {"e"}, subject : {"s"}, message : {"m"}]

ChatPayloads == [username : {"u"}, text : {"hi"}, mode : {Some("arts")}]

Listings ==
    {[ok |-> TRUE, names |-> list_collection_names(store, f)] :
         f \in {<<>>, ForeignNames}}
    \cup {[ok |-> FALSE, error |-> e] : e \in StoreErrors}

ClientDocs(s) ==
    Len(s["question"]) + Len(s["answer"]) + Len(s["blogpost"])
        + Len(s["contactmessage"]) + Len(s["chatmessage"])

ClientRoom == posted < MaxDocs

----------------------------------------------------------------------------
\* Initial states: the database holds what earlier runs or other clients
\* left in it.

EmptyStore == [c \in Collections |-> <<>>]

CustomPlan == [name |-> "Pro", price_month |-> 999, price_year |-> 9900,
               features |-> <<"x">>]

\* A hand-made mode, with a field the schema does not declare.
CustomMode == [key |-> "arts", title |-> "Sanaa", description |-> "d",
               color |-> "#000000", created_by |-> "admin"]

\* Questions of earlier runs.
OldQuestions ==
    <<[mode |-> "arts", text |-> "q1", tags |-> None, locale |-> "en-KE"],
      [mode |-> "child", text |-> "q2", tags |-> Some(<<"t">>), locale |-> "en-KE"],
      [mode |-> "arts", text |-> "q3", tags |-> None, locale |-> "sw-KE"]>>

\* A database in use: a mode and a plan added by hand, and questions.
UsedStore ==
    InsertAll(InsertAll(InsertAll(EmptyStore, "mode", <<CustomMode>>),
                        "pricingplan", <<CustomPlan>>),
              "question", OldQuestions)

\* An empty database, one where a plan or a mode was added by hand, or
\* one in use.
InitialStores ==
    {EmptyStore,
     InsertAll(EmptyStore, "pricingplan", <<CustomPlan>>),
     InsertAll(EmptyStore, "mode", <<CustomMode>>),
     UsedStore}

Init ==
    /\ db_present \in BOOLEAN
    /\ env = IF db_present THEN {"DATABASE_URL", "DATABASE_NAME"} ELSE {}
    /\ store \in IF db_present THEN InitialStores ELSE {EmptyStore}
    /\ start_empty = (store["mode"] = <<>> /\ store["pricingplan"] = <<>>)
    /\ posted = 0
    /\ overlap = FALSE
    /\ began_full = [w \in Workers |-> FALSE]
    /\ added = [w \in Workers |-> [mode |-> 0, pricingplan |-> 0]]
    /\ pc = [w \in Workers |-> "idle"]
    /\ existing = [w \in Workers |-> -1]
    /\ existing_pricing = [w \in Workers |-> -1]
    /\ idx = [w \in Workers |-> 0]

----------------------------------------------------------------------------
\* Requests that make at most one store call: one step each.  They run at
\* any time, also between the store calls of a /seed request.

seedvars == <<overlap, began_full, added, pc, existing, existing_pricing, idx>>

Finish(out) ==
    /\ store' = out.store
    /\ posted' = posted + ClientDocs(out.store) - ClientDocs(store)
    /\ UNCHANGED <<db_present, env, start_empty, seedvars>>

ReadRoot == Finish(read_root(store))

ListQuestions ==
    \E m \in {None, Some("arts")}, n \in {1, DefaultQuestionLimit} :
        Finish(list_questions(store, m, n))

CreateQuestion ==
    /\ ClientRoom
    /\ \E p \in QuestionPayloads, ok \in BOOLEAN :
           Finish(create_question(store, p, ok))

SubmitAnswer ==
    /\ ClientRoom
    /\ \E a \in AnswerPayloads, ok \in BOOLEAN : Finish(submit_answer(store, a, ok))

ListAnswers ==
    \E m \in {None, Some("arts")} :
        Finish(list_answers(store, m, DefaultQuestionLimit))

GetModes == Finish(get_modes(store))

GetPricing == Finish(get_pricing(store))

ListBlog == Finish(list_blog(store))

CreateBlog ==
    /\ ClientRoom
    /\ \E b \in BlogBodies, ok \in BOOLEAN : Finish(create_blog(store, BlogPost(b), ok))

Contact ==
    /\ ClientRoom
    /\ \E c \in ContactPayloads, ok \in BOOLEAN : Finish(contact(store, c, ok))

SendChat ==
    /\ ClientRoom
    /\ \E c \in ChatPayloads, ok \in BOOLEAN : Finish(send_chat(store, c, ok))

GetChat == \E n \in {1, DefaultChatLimit} : Finish(get_chat(store, n))

TestDatabase == \E l \in Listings : Finish(test_database(store, l))

----------------------------------------------------------------------------
\* POST /seed: each request runs seed_content one store call at a time.
\* pc: idle, count_mode, insert_mode, count_pricing, insert_plan, return,
\* then done (answered {"status": "seeded"}), not_configured (answered 500
\* "Database not configured") or store_error (a store call raised).

apivars == <<db_present, env, start_empty, posted>>

InFlight(w) ==
    pc[w] \in {"count_mode", "insert_mode", "count_pricing", "insert_plan", "return"}

Goto(w, at) == pc' = [pc EXCEPT ![w] = at]

\* Mutant of SeedBegin: no `db is None` check.
SeedBeginUnguarded(w) ==
    /\ pc[w] = "idle"
    /\ Goto(w, "count_mode")
    /\ UNCHANGED <<apivars, store, overlap, began_full, added, existing,
                   existing_pricing, idx>>

\* if db is None: raise HTTPException(500)
SeedBegin(w) ==
    /\ pc[w] = "idle"
    /\ Goto(w, IF db_present THEN "count_mode" ELSE "not_configured")
    /\ overlap' = (overlap \/ \E v \in Workers \ {w} : InFlight(v))
    /\ began_full' = [began_full EXCEPT ![w] =
                          store["mode"] # <<>> /\ store["pricingplan"] # <<>>]
    /\ UNCHANGED <<apivars, store, added, existing, existing_pricing, idx>>

\* Mutant of CountMode: the modes are inserted whatever the count is.
CountModeUnchecked(w) ==
    /\ pc[w] = "count_mode"
    /\ existing' = [existing EXCEPT ![w] = count_documents(store, "mode")]
    /\ idx' = [idx EXCEPT ![w] = 1]
    /\ Goto(w, "insert_mode")
    /\ UNCHANGED <<apivars, overlap, began_full, added, store, existing_pricing>>

\* Mutant of CountMode: a mode collection short of the full default set
\* is seeded again.
CountModeTopUp(w) ==
    /\ pc[w] = "count_mode"
    /\ existing' = [existing EXCEPT ![w] = count_documents(store, "mode")]
    /\ idx' = [idx EXCEPT ![w] = 1]
    /\ Goto(w, IF existing'[w] < Len(default_modes) THEN "insert_mode"
               ELSE "count_pricing")
    /\ UNCHANGED <<apivars, overlap, began_full, added, store, existing_pricing>>

\* existing = db["mode"].count_documents({}); if existing == 0: ...
CountMode(w) ==
    /\ pc[w] = "count_mode"
    /\ existing' = [existing EXCEPT ![w] = count_documents(store, "mode")]
    /\ idx' = [idx EXCEPT ![w] = 1]
    /\ Goto(w, IF existing'[w] = 0 THEN "insert_mode" ELSE "count_pricing")
    /\ UNCHANGED <<apivars, overlap, began_full, added, store, existing_pricing>>

\* Mutant of insert_mode: a mode whose key is already stored is skipped.
insert_mode_if_absent(s, w) ==
    IF \E i \in 1..Len(s["mode"]) : s["mode"][i].key = default_modes[idx[w]].key
    THEN s
    ELSE create_document(s, "mode", default_modes[idx[w]])

\* The store after worker w's next create_document("mode", m).
insert_mode(s, w) == create_document(s, "mode", default_modes[idx[w]])

\* for m in default_modes: create_document("mode", m)
InsertMode(w) ==
    /\ pc[w] = "insert_mode"
    /\ store' = insert_mode(store, w)
    /\ added' = [added EXCEPT ![w].mode = @ + 1]
    /\ idx' = [idx EXCEPT ![w] = IF @ = Len(default_modes) THEN 1 ELSE @ + 1]
    /\ Goto(w, IF idx[w] = Len(default_modes) THEN "count_pricing" ELSE "insert_mode")
    /\ UNCHANGED <<apivars, overlap, began_full, existing, existing_pricing>>

\* existing_pricing = db["pricingplan"].count_documents({}); if ... == 0: ...
CountPricing(w) ==
    /\ pc[w] = "count_pricing"
    /\ existing_pricing' =
           [existing_pricing EXCEPT ![w] = count_documents(store, "pricingplan")]
    /\ idx' = [idx EXCEPT ![w] = 1]
    /\ Goto(w, IF existing_pricing'[w] = 0 THEN "insert_plan" ELSE "return")
    /\ UNCHANGED <<apivars, overlap, began_full, added, store, existing>>

\* for p in plans: create_document("pricingplan", p)
InsertPlan(w) ==
    /\ pc[w] = "insert_plan"
    /\ store' = create_document(store, "pricingplan", plans[idx[w]])
    /\ added' = [added EXCEPT ![w].pricingplan = @ + 1]
    /\ idx' = [idx EXCEPT ![w] = IF @ = Len(plans) THEN 1 ELSE @ + 1]
    /\ Goto(w, IF idx[w] = Len(plans) THEN "return" ELSE "insert_plan")
    /\ UNCHANGED <<apivars, overlap, began_full, existing, existing_pricing>>

\* return {"status": "seeded"}
SeedReturn(w) ==
    /\ pc[w] = "return"
    /\ Goto(w, "done")
    /\ UNCHANGED <<apivars, overlap, began_full, added, store, existing,
                   existing_pricing, idx>>

\* A store call of seed_content raises: the exception escapes the handler
\* and what it has inserted stays.
SeedStoreError(w) ==
    /\ pc[w] \in {"count_mode", "insert_mode", "count_pricing", "insert_plan"}
    /\ Goto(w, "store_error")
    /\ UNCHANGED <<apivars, overlap, began_full, added, store, existing,
                   existing_pricing, idx>>

Seed(w) ==
    \/ SeedBegin(w)
    \/ CountMode(w)
    \/ InsertMode(w)
    \/ CountPricing(w)
    \/ InsertPlan(w)
    \/ SeedReturn(w)
    \/ SeedStoreError(w)

Next ==
    \/ ReadRoot
    \/ \E w \in Workers : Seed(w)
    \/ ListQuestions
    \/ CreateQuestion
    \/ SubmitAnswer
    \/ ListAnswers
    \/ GetModes
    \/ GetPricing
    \/ ListBlog
    \/ CreateBlog
    \/ Contact
    \/ SendChat
    \/ GetChat
    \/ TestDatabase

Spec == Init /\ [][Next]_vars

----------------------------------------------------------------------------
\* Properties

Keys(docs) == [i \in 1..Len(docs) |-> docs[i].key]

Names(docs) == [i \in 1..Len(docs) |-> docs[i].name]

Count(s, x) == Cardinality({i \in 1..Len(s) : s[i] = x})

IsPrefix(s, u) == Len(s) <= Len(u) /\ SubSeq(u, 1, Len(s)) = s

AllDone == \A w \in Workers : pc[w] = "done"

Nothing == [mode |-> 0, pricingplan |-> 0]

FourModes == <<"child", "arts", "creative", "technology">>

ThreePlans == <<"Starter", "Creator", "Team">>

\* The fixed defaults: keys, titles and colours of the modes, names and
\* prices (in hundredths) of the plans.
ModeFacts(ms) ==
    /\ Keys(ms) = FourModes
    /\ [i \in 1..Len(ms) |-> ms[i].title]
           = <<"Child", "Arts & Culture", "Creative", "Technology">>
    /\ [i \in 1..Len(ms) |-> ms[i].color]
           = <<"#FDBA74", "#FDE68A", "#86EFAC", "#93C5FD">>

PlanFacts(ps) ==
    /\ Names(ps) = ThreePlans
    /\ [i \in 1..Len(ps) |-> ps[i].price_month] = <<0, 499, 1499>>
    /\ [i \in 1..Len(ps) |-> ps[i].price_year] = <<0, 4900, 14900>>

\* What a client is to see of a stored mode and of a stored question.
ModeView(d) ==
    [key |-> d.key, title |-> d.title, description |-> d.description,
     color |-> d.color]

QuestionView(d) ==
    [mode |-> d.mode, text |-> d.text, tags |-> d.tags, locale |-> d.locale]

\* C1: from empty mode and pricingplan, two /seed requests that run one
\* after the other and both complete leave exactly the 4 default modes and
\* the 3 default plans; a /seed request issued when both collections hold
\* documents inserts nothing.
C1_SeedTwiceInSequence ==
    /\ (start_empty /\ ~overlap /\ AllDone) =>
           /\ Keys(store["mode"]) = FourModes
           /\ Names(store["pricingplan"]) = ThreePlans
    /\ \A w \in Workers : began_full[w] => added[w] = Nothing

C1_Witness ==
    /\ start_empty /\ ~overlap /\ AllDone
    /\ Len(store["mode"]) = 4 /\ Len(store["pricingplan"]) = 3
    /\ \E w \in Workers : began_full[w] /\ added[w] = Nothing

\* C2: when both /seed requests read a mode count of zero and complete,
\* every default mode is stored twice (8 documents); when both read a
\* pricingplan count of zero, every default plan is stored twice (6).
C2_RaceDuplicates ==
    AllDone =>
        /\ (\A w \in Workers : existing[w] = 0) =>
               /\ Len(store["mode"]) = 8
               /\ \A i \in 1..4 : Count(Keys(store["mode"]), FourModes[i]) = 2
        /\ (\A w \in Workers : existing_pricing[w] = 0) =>
               /\ Len(store["pricingplan"]) = 6
               /\ \A i \in 1..3 :
                      Count(Names(store["pricingplan"]), ThreePlans[i]) = 2

C2_Witness ==
    /\ AllDone
    /\ \A w \in Workers : existing[w] = 0 /\ existing_pricing[w] = 0
    /\ Len(store["mode"]) = 8
    /\ Len(store["pricingplan"]) = 6

\* C3: POST /questions with a mode outside child, arts, creative,
\* technology answers 400 and leaves every collection unchanged; every
\* stored question has one of the four modes.
C3_InvalidModeRejected ==
    /\ \A p \in QuestionPayloads, ok \in BOOLEAN :
           p.mode \notin {"child", "arts", "creative", "technology"} =>
               LET out == create_question(store, p, ok)
               IN  out.resp.status = 400 /\ out.store = store
    /\ \A i \in 1..Len(store["question"]) :
           store["question"][i].mode \in {"child", "arts", "creative", "technology"}

C3_Witness ==
    /\ posted = 1
    /\ store["question"] # <<>>
    /\ store["question"][Len(store["question"])].text = "q"
    /\ \E p \in QuestionPayloads :
           /\ p.mode = "bogus"
           /\ create_question(store, p, TRUE).resp.status = 400

\* C4: GET /modes on an empty mode collection answers the four fixed modes
\* and writes nothing; GET /pricing on an empty pricingplan collection
\* answers the three fixed plans and writes nothing.
C4_DefaultsWithoutWrite ==
    /\ store["mode"] = <<>> =>
           LET out == get_modes(store)
           IN  /\ out.resp.status = 200
               /\ Len(out.resp.body) = 4
               /\ ModeFacts(out.resp.body)
               /\ out.store = store
    /\ store["pricingplan"] = <<>> =>
           LET out == get_pricing(store)
           IN  /\ out.resp.status = 200
               /\ Len(out.resp.body) = 3
               /\ PlanFacts(out.resp.body)
               /\ out.store = store

C4_Witness ==
    /\ db_present
    /\ store["mode"] = <<>> /\ store["pricingplan"] = <<>>
    /\ \E w \in Workers : pc[w] = "insert_mode"
    /\ ModeFacts(get_modes(store).resp.body)
    /\ PlanFacts(get_pricing(store).resp.body)

\* C5: with no store configured, a /seed request is answered 500 before
\* any count or insert: it reads no count, inserts nothing, and no
\* collection holds a document.
C5_SeedWithoutStore ==
    ~db_present =>
        /\ store = EmptyStore
        /\ \A w \in Workers :
               /\ pc[w] \in {"idle", "not_configured"}
               /\ existing[w] = -1 /\ existing_pricing[w] = -1
               /\ added[w] = Nothing

C5_Witness ==
    /\ ~db_present
    /\ \A w \in Workers : pc[w] = "not_configured"
    /\ store = EmptyStore

\* What C6 claims of GET /questions?mode=m&limit=n.
QuestionsWithin(m, n) ==
    LET out == list_questions(store, m, n)
        got == out.resp.body
    IN  /\ out.resp.status = 200
        /\ Len(got) <= n
        /\ Truthy(m) => \A i \in 1..Len(got) : got[i].mode = m[1]
        /\ (~Truthy(m) /\ db_present) =>
               got = [i \in 1..Min(n, Len(store["question"])) |->
                          QuestionView(store["question"][i])]

\* C6 as stated: for every mode m and every limit n, GET /questions returns
\* at most n documents, all of mode m; without a mode, up to n questions
\* of any mode.
C6_Original ==
    \A m \in QueryModes, n \in Limits(DefaultQuestionLimit) : QuestionsWithin(m, n)

\* C6: for every mode m and every limit n >= 0, GET /questions returns at
\* most n documents, all of mode m; without a mode (or with an empty one)
\* it returns the first n questions of any mode.
C6_ListQuestionsWithinLimit ==
    \A m \in QueryModes, n \in Limits(DefaultQuestionLimit) :
        n >= 0 => QuestionsWithin(m, n)

C6_Witness ==
    /\ db_present
    /\ Len(SelectMatching(store["question"], [mode |-> "arts"])) > 1
    /\ Len(SelectMatching(store["question"], [mode |-> "child"])) > 1
    /\ Len(list_questions(store, Some("arts"), 1).resp.body) = 1
    /\ Len(list_questions(store, None, DefaultQuestionLimit).resp.body)
           = Len(store["question"])

\* What C7 claims of GET /test, with `absent` the database field it
\* reports when no store is configured.
TestReports(absent) ==
    \A l \in Listings :
        LET out == test_database(store, l)
            r   == out.resp.body
        IN  /\ out.resp.status = 200
            /\ out.store = store
            /\ ~db_present =>
                   /\ r.database = absent
                   /\ r.connection_status = "Not Connected"
                   /\ r.collections = <<>>
            /\ (db_present /\ l.ok) =>
                   /\ Len(r.collections) <= 10
                   /\ IsPrefix(r.collections, l.names)

\* C7 as stated: GET /test never raises; with no store configured the
\* database field reports the store as unavailable ("Not Available") and
\* collections is empty; a successful listing yields at most 10 names.
C7_Original == TestReports("Not Available")

\* C7: GET /test never raises; with no store configured the database field
\* reads "Available but not initialized", connection_status is
\* "Not Connected" and collections is empty; a successful listing yields at
\* most 10 names.
C7_TestNeverRaises == TestReports("Available but not initialized")

C7_Witness ==
    /\ db_present
    /\ posted = 1
    /\ \E w \in Workers : pc[w] = "done"
    /\ \E l \in Listings :
           /\ l.ok /\ Len(l.names) > 10
           /\ Len(test_database(store, l).resp.body.collections) = 10

\* A successful POST grows collection c of the store by one document and
\* leaves the other collections as they are.
GrowsOnly(out, c) ==
    out.resp.status = 200 =>
        /\ Len(out.store[c]) = Len(store[c]) + 1
        /\ IsPrefix(store[c], out.store[c])
        /\ \A o \in Collections \ {c} : out.store[o] = store[o]

PostsGrowOwn ==
    \A ok \in BOOLEAN :
        /\ \A p \in QuestionPayloads :
               GrowsOnly(create_question(store, p, ok), "question")
        /\ \A a \in AnswerPayloads :
               GrowsOnly(submit_answer(store, a, ok), "answer")
        /\ \A b \in BlogBodies :
               GrowsOnly(create_blog(store, BlogPost(b), ok), "blogpost")
        /\ \A c \in ContactPayloads :
               GrowsOnly(contact(store, c, ok), "contactmessage")
        /\ \A c \in ChatPayloads :
               GrowsOnly(send_chat(store, c, ok), "chatmessage")

GetsWriteNothing ==
    /\ read_root(store).store = store
    /\ get_modes(store).store = store
    /\ get_pricing(store).store = store
    /\ list_blog(store).store = store
    /\ \A l \in Listings : test_database(store, l).store = store
    /\ \A m \in QueryModes, n \in Limits(DefaultQuestionLimit) :
           /\ list_questions(store, m, n).store = store
           /\ list_answers(store, m, n).store = store
    /\ \A n \in Limits(DefaultChatLimit) : get_chat(store, n).store = store

\* No step removes or changes a stored document.
KeepsDocuments ==
    \A c \in Collections : store'[c] = store[c] \/ IsPrefix(store[c], store'[c])

\* C8: no step of any request removes or changes a stored document; each
\* successful POST adds one document to its own collection and leaves the
\* others unchanged; no GET changes a collection.
C8_AppendOnly ==
    /\ [](PostsGrowOwn /\ GetsWriteNothing)
    /\ [][KeepsDocuments]_vars

C8_Witness ==
    /\ Len(store["contactmessage"]) = 1
    /\ Len(store["mode"]) > 4
    /\ \E w \in Workers : pc[w] = "insert_plan"

\* C9: GET /modes returns, for every stored mode, exactly its four declared
\* fields with the stored values; a question created by POST /questions
\* reads back from GET /questions as its mode, text, tags and locale;
\* GET /answers and GET /chat return the documents as stored.
C9_FilteredRoundTrip ==
    db_present =>
        /\ (store["mode"] # <<>> /\ Len(store["mode"]) <= 10) =>
               get_modes(store).resp.body
                   = [i \in 1..Len(store["mode"]) |-> ModeView(store["mode"][i])]
        /\ \A p \in QuestionPayloads :
               LET out  == create_question(store, p, TRUE)
                   n    == Len(out.store["question"])
                   back == list_questions(out.store, None, n).resp.body
               IN  out.resp.status = 200 =>
                       /\ Len(back) = n
                       /\ back[n] = p
                       /\ DOMAIN back[n] = {"mode", "text", "tags", "locale"}
        /\ list_answers(store, None, DefaultQuestionLimit).resp.body = store["answer"]
        /\ get_chat(store, DefaultChatLimit).resp.body = store["chatmessage"]

C9_Witness ==
    /\ db_present
    /\ store["mode"] # <<>>
    /\ "created_by" \in DOMAIN store["mode"][1]
    /\ "created_by" \notin DOMAIN get_modes(store).resp.body[1]
    /\ Len(store["answer"]) = 1
    /\ "_id" \in DOMAIN list_answers(store, None, DefaultQuestionLimit).resp.body[1]

\* What a /seed request has inserted, given the counts it read.
SeedsByCount(w) ==
    /\ existing[w] > 0 => added[w].mode = 0
    /\ (existing[w] = 0 /\ pc[w] \in {"count_pricing", "insert_plan", "return", "done"})
           => added[w].mode = 4
    /\ existing[w] = -1 => added[w] = Nothing
    /\ existing_pricing[w] > 0 => added[w].pricingplan = 0
    /\ (existing_pricing[w] = 0 /\ pc[w] \in {"return", "done"})
           => added[w].pricingplan = 3
    /\ existing_pricing[w] = -1 => added[w].pricingplan = 0

\* A /seed request's step that reads a count reads the collection's size
\* and goes on to insert exactly when it is zero; a step that inserts
\* adds the next default to its collection only.
SeedStep(w) ==
    /\ (pc[w] = "count_mode" /\ pc'[w] \notin {"count_mode", "store_error"}) =>
           /\ existing'[w] = Len(store["mode"])
           /\ (pc'[w] = "insert_mode") = (Len(store["mode"]) = 0)
           /\ store' = store
    /\ (pc[w] = "count_pricing" /\ pc'[w] \notin {"count_pricing", "store_error"}) =>
           /\ existing_pricing'[w] = Len(store["pricingplan"])
           /\ (pc'[w] = "insert_plan") = (Len(store["pricingplan"]) = 0)
           /\ store' = store
    /\ added'[w].mode = added[w].mode + 1 =>
           /\ existing[w] = 0
           /\ Len(store'["mode"]) = Len(store["mode"]) + 1
           /\ store'["mode"][Len(store'["mode"])].key = FourModes[added'[w].mode]
           /\ store'["pricingplan"] = store["pricingplan"]
    /\ added'[w].pricingplan = added[w].pricingplan + 1 =>
           /\ existing_pricing[w] = 0
           /\ Len(store'["pricingplan"]) = Len(store["pricingplan"]) + 1
           /\ store'["pricingplan"][Len(store'["pricingplan"])].name
                  = ThreePlans[added'[w].pricingplan]
           /\ store'["mode"] = store["mode"]

\* The reference collections only grow by the inserts of /seed requests.
OnlySeedsAdd ==
    /\ Len(store'["mode"]) =
           Len(store["mode"]) + Cardinality({w \in Workers : added'[w].mode # added[w].mode})
    /\ Len(store'["pricingplan"]) =
           Len(store["pricingplan"])
               + Cardinality({w \in Workers : added'[w].pricingplan # added[w].pricingplan})

\* C10: a /seed request that reads a non-zero mode count inserts no mode,
\* whatever the count, and one that reads zero inserts the 4 defaults;
\* independently, it inserts no plan on a non-zero pricingplan count and
\* the 3 defaults on zero.
C10_SeedsIndependently ==
    /\ [](\A w \in Workers : SeedsByCount(w))
    /\ [][OnlySeedsAdd /\ \A w \in Workers : SeedStep(w)]_vars

C10_Witness ==
    \E w \in Workers, v \in Workers :
        /\ pc[v] = "store_error" /\ added[v].mode \in 1..3
        /\ Len(store["mode"]) = added[v].mode
        /\ pc[w] = "done"
        /\ existing[w] = added[v].mode
        /\ existing_pricing[w] = 0
        /\ added[w] = [mode |-> 0, pricingplan |-> 3]

====
